---- MODULE Spec2Model ----
(***************************************************************************)
(* SkillSage Hub (resume.py): skill extraction, skill-gap and job-fit      *)
(* arithmetic, and the Streamlit modules built on them.                    *)
(*                                                                         *)
(* Strings that the program only compares for equality (skill names, role  *)
(* names, file names) are TLA+ strings.  Strings whose characters matter   *)
(* (resume text, the spelling of a skill, form fields) are sequences of    *)
(* Unicode code points, so that lower(), the in-operator on strings, the   *)
(* ordering used by sorted() and encode('latin-1') are computed character  *)
(* by character.                                                           *)
(***************************************************************************)
EXTENDS Integers, Sequences, FiniteSets, TLC

\* Longest resume text of the call-level specification, in pieces.
MaxPieces == 2

\* Most files one upload widget holds.
MaxFiles == 2

----------------------------------------------------------------------------
(* Predefined data                                                          *)

\* job_roles: role name -> ordered list of required skills.
job_roles ==
    "Data Analyst" :> <<"Python", "SQL", "Excel", "Power BI", "Statistics">> @@
    "AI/ML Engineer" :> <<"Python", "Machine Learning", "Deep Learning", "TensorFlow", "PyTorch">> @@
    "Web Developer" :> <<"HTML", "CSS", "JavaScript", "React", "SQL">> @@
    "Software Engineer" :> <<"Java", "C++", "Data Structures", "Algorithms">>

\* list(job_roles.keys()): the options of every role selectbox, in dict order.
RoleOptions == <<"Data Analyst", "AI/ML Engineer", "Web Developer", "Software Engineer">>

\* The spelling of every skill literal of job_roles, as code points.
Chars ==
    "Python" :> <<80, 121, 116, 104, 111, 110>> @@
    "SQL" :> <<83, 81, 76>> @@
    "Excel" :> <<69, 120, 99, 101, 108>> @@
    "Power BI" :> <<80, 111, 119, 101, 114, 32, 66, 73>> @@
    "Statistics" :> <<83, 116, 97, 116, 105, 115, 116, 105, 99, 115>> @@
    "Machine Learning" :> <<77, 97, 99, 104, 105, 110, 101, 32, 76, 101, 97, 114, 110, 105, 110, 103>> @@
    "Deep Learning" :> <<68, 101, 101, 112, 32, 76, 101, 97, 114, 110, 105, 110, 103>> @@
    "TensorFlow" :> <<84, 101, 110, 115, 111, 114, 70, 108, 111, 119>> @@
    "PyTorch" :> <<80, 121, 84, 111, 114, 99, 104>> @@
    "HTML" :> <<72, 84, 77, 76>> @@
    "CSS" :> <<67, 83, 83>> @@
    "JavaScript" :> <<74, 97, 118, 97, 83, 99, 114, 105, 112, 116>> @@
    "React" :> <<82, 101, 97, 99, 116>> @@
    "Java" :> <<74, 97, 118, 97>> @@
    "C++" :> <<67, 43, 43>> @@
    "Data Structures" :> <<68, 97, 116, 97, 32, 83, 116, 114, 117, 99, 116, 117, 114, 101, 115>> @@
    "Algorithms" :> <<65, 108, 103, 111, 114, 105, 116, 104, 109, 115>>

Range(s) == {s[i] : i \in DOMAIN s}

\* x in some_list
InList(x, list) == \E i \in DOMAIN list : list[i] = x

----------------------------------------------------------------------------
(* Python string primitives                                                 *)

\* str.lower() of one character: A-Z and the Latin-1 capitals move up by 32,
\* U+0130 becomes the two characters i + combining dot, the other code
\* points that occur in the inputs are unchanged.
LowerChar(c) ==
    IF c \in 65..90 \/ (c \in 192..222 /\ c # 215) THEN <<c + 32>>
    ELSE IF c = 304 THEN <<105, 775>>
    ELSE <<c>>

\* str.lower(): the characters' lowerings, concatenated (halving keeps the
\* evaluation shallow on long texts).
RECURSIVE lower(_)
lower(s) ==
    IF s = <<>> THEN <<>>
    ELSE IF Len(s) = 1 THEN LowerChar(s[1])
    ELSE LET h == Len(s) \div 2
         IN  lower(SubSeq(s, 1, h)) \o lower(SubSeq(s, h + 1, Len(s)))

\* needle in hay, for strings: needle matches hay at some offset.
Contains(needle, hay) ==
    \E i \in 0..(Len(hay) - Len(needle)) :
        \A j \in 1..Len(needle) : hay[i + j] = needle[j]

\* a < b for strings: lexicographic by code point.
RECURSIVE StrLess(_, _)
StrLess(a, b) ==
    IF b = <<>> THEN FALSE
    ELSE IF a = <<>> THEN TRUE
    ELSE IF Head(a) # Head(b) THEN Head(a) < Head(b)
    ELSE StrLess(Tail(a), Tail(b))

\* sorted(collection of distinct skill names): ascending by spelling.
RECURSIVE sorted(_)
sorted(S) ==
    IF S = {} THEN <<>>
    ELSE LET m == CHOOSE x \in S : \A y \in S \ {x} : StrLess(Chars[x], Chars[y])
         IN  <<m>> \o sorted(S \ {m})

\* all_skills = sorted({skill for skills in job_roles.values() for skill in skills})
all_skills == sorted(UNION {Range(job_roles[r]) : r \in DOMAIN job_roles})

----------------------------------------------------------------------------
(* Helper functions                                                         *)

\* extract_skills matching whole words only: the match may not touch a
\* letter, digit or underscore on either side.
IsWordChar(c) == c \in 48..57 \/ c \in 65..90 \/ c \in 97..122 \/ c = 95

ContainsWord(needle, hay) ==
    \E i \in 0..(Len(hay) - Len(needle)) :
        /\ \A j \in 1..Len(needle) : hay[i + j] = needle[j]
        /\ i = 0 \/ ~IsWordChar(hay[i])
        /\ i + Len(needle) = Len(hay) \/ ~IsWordChar(hay[i + Len(needle) + 1])

extract_skills_whole_words(text) ==
    LET text_lower == lower(text)
        found == SelectSeq(all_skills,
                           LAMBDA skill : ContainsWord(lower(Chars[skill]), text_lower))
    IN  sorted(Range(found))

\* extract_skills without the two lower() calls.
extract_skills_case_sensitive(text) ==
    LET found == SelectSeq(all_skills, LAMBDA skill : Contains(Chars[skill], text))
    IN  sorted(Range(found))

extract_skills(text) ==
    LET text_lower == lower(text)
        found == SelectSeq(all_skills,
                           LAMBDA skill : Contains(lower(Chars[skill]), text_lower))
    IN  sorted(Range(found))

\* suggest_skills returning the missing skills in alphabetical order.
suggest_skills_sorted(found_skills, target_role) ==
    LET role_skills == IF target_role \in DOMAIN job_roles
                       THEN job_roles[target_role] ELSE <<>>
    IN  sorted({s \in Range(role_skills) : ~InList(s, found_skills)})

suggest_skills(found_skills, target_role) ==
    LET role_skills == IF target_role \in DOMAIN job_roles
                       THEN job_roles[target_role] ELSE <<>>
        missing == SelectSeq(role_skills, LAMBDA s : ~InList(s, found_skills))
    IN  missing

\* int((len(skills)/len(job_roles[target_role]))*100) if job_roles[target_role] else 0
\* The condition is evaluated first and subscripts the dict, so a role that
\* is no key raises KeyError.  len(skills) is at most 17 and the divisor 4
\* or 5; for these the float product truncates to the exact floor.
JobFit(skills, target_role) ==
    IF target_role \notin DOMAIN job_roles
    THEN [exc |-> "KeyError", value |-> 0]
    ELSE IF job_roles[target_role] # <<>>
         THEN [exc |-> "none",
               value |-> (Len(skills) * 100) \div Len(job_roles[target_role])]
         ELSE [exc |-> "none", value |-> 0]

----------------------------------------------------------------------------
(* Inputs                                                                   *)

\* Fragments resume texts are assembled from.
Pieces ==
    { \* the text Java
      <<74, 97, 118, 97>>,
      \* the text Script
      <<83, 99, 114, 105, 112, 116>>,
      \* the text javascript
      <<106, 97, 118, 97, 115, 99, 114, 105, 112, 116>>,
      \* the text PYTHON
      <<80, 89, 84, 72, 79, 78>>,
      \* the text sql
      <<115, 113, 108>>,
      \* a single space
      <<32>>,
      \* the text C+
      <<67, 43>>,
      \* the text +
      <<43>>,
      \* the text Power
      <<80, 111, 119, 101, 114>>,
      \* the text  BI
      <<32, 66, 73>>,
      \* the text stat
      <<115, 116, 97, 116>>,
      \* the text istics
      <<105, 115, 116, 105, 99, 115>>,
      \* capital I with dot above, U+0130
      <<304>>,
      \* the text Deep learning, TensorFlow; pytorch
      <<68, 101, 101, 112, 32, 108, 101, 97, 114, 110, 105, 110, 103, 44, 32, 84, 101, 110, 115, 111, 114, 70, 108, 111, 119, 59, 32, 112, 121, 116, 111, 114, 99, 104>> }

RECURSIVE Flatten(_)
Flatten(ps) == IF ps = <<>> THEN <<>> ELSE Head(ps) \o Flatten(Tail(ps))

Texts == {Flatten(ps) : ps \in UNION {[1..n -> Pieces] : n \in 0..MaxPieces}}

\* A role name that is no key of job_roles.
UnknownRole == "Astronaut"

RoleInputs == DOMAIN job_roles \cup {UnknownRole}

----------------------------------------------------------------------------
(* Uploads and form input                                                   *)

\* The text PyMuPDF reads out of each readable sample PDF.
PdfText ==
    \* no text at all
    "blank.pdf" :> <<>> @@
    \* the text Experienced in python and Excel reporting
    "analyst.pdf" :> <<69, 120, 112, 101, 114, 105, 101, 110, 99, 101, 100, 32, 105, 110, 32, 112, 121, 116, 104, 111, 110, 32, 97, 110, 100, 32, 69, 120, 99, 101, 108, 32, 114, 101, 112, 111, 114, 116, 105, 110, 103>> @@
    \* the text HTML, CSS and JavaScript
    "webdev.pdf" :> <<72, 84, 77, 76, 44, 32, 67, 83, 83, 32, 97, 110, 100, 32, 74, 97, 118, 97, 83, 99, 114, 105, 112, 116>> @@
    \* the text Java, C++, Data Structures, Algorithms, SQL
    "engineer.pdf" :> <<74, 97, 118, 97, 44, 32, 67, 43, 43, 44, 32, 68, 97, 116, 97, 32, 83, 116, 114, 117, 99, 116, 117, 114, 101, 115, 44, 32, 65, 108, 103, 111, 114, 105, 116, 104, 109, 115, 44, 32, 83, 81, 76>>

\* A byte stream fitz.open cannot read as a PDF.
CorruptPdf == "corrupt.pdf"

FileNames == {"a.pdf", "b.pdf"}

\* An uploaded file: its name and its bytes.  Two uploads may carry the same
\* name.
Uploads == [name : FileNames, pdf : DOMAIN PdfText \cup {CorruptPdf}]

\* Values typed into the text fields of Create Resume: nothing, the text
\* Ann, and the text L-with-stroke u (U+0141 is outside Latin-1).
FieldValues == {<<>>, <<65, 110, 110>>, <<321, 117>>}

\* Values picked in the skills multiselect, in selection order.
SkillSelections == {<<>>, <<"Python">>, <<"SQL", "Java">>}

----------------------------------------------------------------------------
(* The Streamlit script                                                     *)

\* The radio options of the sidebar.  Learning Hub and Interview Prep read
\* no widget and compute nothing that is modelled here.
Modules == {"Resume Analysis", "Create Resume", "Resume Comparison",
            "Learning Hub", "Interview Prep Helper", "Resume Optimization Tips"}

Check == "check"
Cross == "cross"

NoTable == [built |-> FALSE, columns |-> <<>>, rows |-> <<>>]

NoPdf == [made |-> FALSE, name |-> <<>>, email |-> <<>>, target_job |-> "",
          summary |-> <<>>, skills |-> <<>>]

\* What one run of the script has put on the page when it ends:
\*   exception  the exception that ended the run, if any
\*   keys       the keys of the role selectboxes the run rendered
\*   details    the records appended to resume_results and shown in the
\*              per-file expanders
\*   tracked    whether the run reached the code after the analysis loop
\*   df_gap     the Skill Gap Tracker table
\*   df         the Comparison Table
\*   info       the st.info / st.warning / st.success message
\*   skills     the detected skills written by Resume Optimization Tips
\*   pdf        the document behind the Download Resume PDF button
BlankPage == [exception |-> "none", keys |-> {}, details |-> <<>>,
              tracked |-> FALSE, df_gap |-> NoTable, df |-> NoTable,
              info |-> "none", skills |-> <<>>, pdf |-> NoPdf]

extract_text_from_pdf(uploaded_file) ==
    IF uploaded_file.pdf = CorruptPdf
    THEN [exc |-> "FileDataError", text |-> <<>>]
    ELSE [exc |-> "none", text |-> PdfText[uploaded_file.pdf]]

\* The loop of lines 110-144 from file i on; acc holds what the earlier
\* iterations produced.  st.selectbox raises when its key was already used
\* by an earlier selectbox of the same run; extract_text_from_pdf raises on
\* an unreadable file.  Either exception ends the run.
RECURSIVE AnalysisLoop(_, _, _, _)
AnalysisLoop(files, sel, i, acc) ==
    IF i > Len(files) THEN acc
    ELSE LET file == files[i]
         IN  IF file.name \in acc.keys
             THEN [acc EXCEPT !.exception = "DuplicateWidgetID"]
             ELSE LET role == sel[file.name]
                      keyed == [acc EXCEPT !.keys = @ \cup {file.name}]
                      t == extract_text_from_pdf(file)
                  IN  IF t.exc # "none"
                      THEN [keyed EXCEPT !.exception = t.exc]
                      ELSE LET found == extract_skills(t.text)
                               missing == suggest_skills(found, role)
                               fit == JobFit(found, role)
                               rec == [Resume_File |-> file.name,
                                       Target_Role |-> role,
                                       Detected_Skills |-> found,
                                       Missing_Skills |-> missing,
                                       Job_Fit |-> fit.value]
                           IN  IF fit.exc # "none"
                               THEN [keyed EXCEPT !.exception = fit.exc]
                               ELSE AnalysisLoop(files, sel, i + 1,
                                        [keyed EXCEPT !.details = Append(@, rec)])

\* The tracker marking a skill by whether the resume shows it.
SkillGapTracker_by_detection(resume_results) ==
    LET all_skills_union ==
            sorted(UNION {Range(resume_results[i].Missing_Skills) :
                          i \in DOMAIN resume_results})
        row(r) == [Resume |-> r.Resume_File,
                   cells |-> [skill \in Range(all_skills_union) |->
                                 IF InList(skill, r.Detected_Skills)
                                 THEN Check ELSE Cross]]
    IN  IF all_skills_union # <<>>
        THEN [table |-> [built |-> TRUE, columns |-> all_skills_union,
                         rows |-> [i \in DOMAIN resume_results |->
                                      row(resume_results[i])]],
              info |-> "none"]
        ELSE [table |-> NoTable,
              info |-> "No missing skills across uploaded resumes"]

\* Lines 146-158.
SkillGapTracker(resume_results) ==
    LET all_skills_union ==
            sorted(UNION {Range(resume_results[i].Missing_Skills) :
                          i \in DOMAIN resume_results})
        row(r) == [Resume |-> r.Resume_File,
                   cells |-> [skill \in Range(all_skills_union) |->
                                 IF InList(skill, r.Missing_Skills)
                                 THEN Cross ELSE Check]]
    IN  IF all_skills_union # <<>>
        THEN [table |-> [built |-> TRUE, columns |-> all_skills_union,
                         rows |-> [i \in DOMAIN resume_results |->
                                      row(resume_results[i])]],
              info |-> "none"]
        ELSE [table |-> NoTable,
              info |-> "No missing skills across uploaded resumes"]

\* Module 1, lines 105-158.  The word cloud, the learning table and the
\* report downloads that follow read resume_results and change nothing.
ResumeAnalysis(files, sel) ==
    IF files = <<>> THEN BlankPage
    ELSE LET loop == AnalysisLoop(files, sel, 1, BlankPage)
         IN  IF loop.exception # "none" THEN loop
             ELSE LET gap == SkillGapTracker(loop.details)
                  IN  [loop EXCEPT !.tracked = TRUE,
                                   !.df_gap = gap.table,
                                   !.info = gap.info]

\* Module 2, lines 206-232, on the run in which the button was pressed.
\* The document is encoded as Latin-1, which raises on a character above
\* U+00FF.
Latin1(s) == \A i \in DOMAIN s : s[i] <= 255

CreateResume(form) ==
    IF form.name = <<>> \/ form.email = <<>> \/ form.skills = <<>>
       \/ form.summary = <<>>
    THEN [BlankPage EXCEPT
            !.info = "Please fill all fields to generate the resume."]
    ELSE IF ~(Latin1(form.name) /\ Latin1(form.email) /\ Latin1(form.summary))
    THEN [BlankPage EXCEPT !.exception = "UnicodeEncodeError"]
    ELSE [BlankPage EXCEPT
            !.pdf = [made |-> TRUE, name |-> form.name, email |-> form.email,
                     target_job |-> form.target_job,
                     summary |-> form.summary, skills |-> form.skills],
            !.info = "Resume PDF generated successfully!"]

\* The loop of lines 241-244 from file i on.
RECURSIVE ComparisonLoop(_, _, _)
ComparisonLoop(files, i, acc) ==
    IF i > Len(files) THEN acc
    ELSE LET t == extract_text_from_pdf(files[i])
         IN  IF t.exc # "none"
             THEN [acc EXCEPT !.exception = t.exc]
             ELSE ComparisonLoop(files, i + 1,
                      [acc EXCEPT !.resumes_data =
                          Append(@, [file |-> files[i].name,
                                     skills |-> extract_skills(t.text)])])

\* The table of lines 247-253 with the marks of the gap tracker.
ComparisonTable_marks_swapped(resumes_data) ==
    LET all_skills_union ==
            sorted(UNION {Range(resumes_data[i].skills) :
                          i \in DOMAIN resumes_data})
        row(r) == [Resume |-> r.file,
                   cells |-> [skill \in Range(all_skills_union) |->
                                 IF InList(skill, r.skills)
                                 THEN Cross ELSE Check]]
    IN  [built |-> TRUE, columns |-> all_skills_union,
         rows |-> [i \in DOMAIN resumes_data |-> row(resumes_data[i])]]

\* Lines 247-253.
ComparisonTable(resumes_data) ==
    LET all_skills_union ==
            sorted(UNION {Range(resumes_data[i].skills) :
                          i \in DOMAIN resumes_data})
        row(r) == [Resume |-> r.file,
                   cells |-> [skill \in Range(all_skills_union) |->
                                 IF InList(skill, r.skills)
                                 THEN Check ELSE Cross]]
    IN  [built |-> TRUE, columns |-> all_skills_union,
         rows |-> [i \in DOMAIN resumes_data |-> row(resumes_data[i])]]

\* Module 3, lines 237-256.
ResumeComparison(files) ==
    IF files # <<>> /\ Len(files) >= 2
    THEN LET loop == ComparisonLoop(files, 1,
                         [exception |-> "none", resumes_data |-> <<>>])
         IN  IF loop.exception # "none"
             THEN [BlankPage EXCEPT !.exception = loop.exception]
             ELSE [BlankPage EXCEPT !.df = ComparisonTable(loop.resumes_data)]
    ELSE [BlankPage EXCEPT !.info = "Upload at least 2 resumes to compare."]

\* Module 6, lines 284-290.
OptimizationTips(files) ==
    IF files = <<>> THEN BlankPage
    ELSE LET t == extract_text_from_pdf(files[1])
         IN  IF t.exc # "none"
             THEN [BlankPage EXCEPT !.exception = t.exc]
             ELSE [BlankPage EXCEPT !.skills = extract_skills(t.text),
                                    !.info = "Optimization Tips"]

\* One run of the script, top to bottom, on the widget values it finds.
Script(opt, files, sel, frm, clicked) ==
    CASE opt = "Resume Analysis" -> ResumeAnalysis(files, sel)
      [] opt = "Create Resume" -> IF clicked THEN CreateResume(frm) ELSE BlankPage
      [] opt = "Resume Comparison" -> ResumeComparison(files)
      [] opt = "Resume Optimization Tips" -> OptimizationTips(files)
      [] OTHER -> BlankPage

----------------------------------------------------------------------------
(* State                                                                    *)

\* Widget state kept by Streamlit between runs, and the page of the last run:
\*   option          the module picked in the sidebar
\*   uploaded_files  the files held by the upload widget of that module
\*   selected        the value of the role selectbox with key file.name
\*   form            the inputs of Create Resume
\*   page            what the last run of the script rendered
\* Locals of lines 113-116, stepped one call at a time:
\*   pc, text, target_role, skills, missing_skills, job_fit
VARIABLES option, uploaded_files, selected, form, page,
          pc, text, target_role, skills, missing_skills, job_fit

uiVars == <<option, uploaded_files, selected, form, page>>

callVars == <<pc, text, target_role, skills, missing_skills, job_fit>>

vars == <<uiVars, callVars>>

\* A selectbox without index shows its first option.
DefaultRole == RoleOptions[1]

EmptyForm == [name |-> <<>>, email |-> <<>>, skills |-> <<>>,
              target_job |-> DefaultRole, summary |-> <<>>]

UIStart ==
    /\ option = "Resume Analysis"
    /\ uploaded_files = <<>>
    /\ selected = [n \in FileNames |-> DefaultRole]
    /\ form = EmptyForm
    /\ page = BlankPage

CallIdle ==
    /\ pc = "idle"
    /\ text = <<>>
    /\ target_role = DefaultRole
    /\ skills = <<>>
    /\ missing_skills = <<>>
    /\ job_fit = 0

----------------------------------------------------------------------------
(* Widget interactions.  Each one changes a widget value and reruns the     *)
(* script; a widget the run does not render loses its value.                *)

Rerun(opt, files, sel, frm, clicked) ==
    /\ page' = Script(opt, files, sel, frm, clicked)
    /\ option' = opt
    /\ uploaded_files' = files
    /\ selected' = [n \in FileNames |->
                       IF n \in page'.keys THEN sel[n] ELSE DefaultRole]
    /\ form' = frm
    /\ UNCHANGED callVars

\* st.radio in the sidebar.
SelectModule(opt) ==
    /\ opt # option
    /\ Rerun(opt, <<>>, selected, EmptyForm, FALSE)

HasMultiUpload == option \in {"Resume Analysis", "Resume Comparison"}

\* st.file_uploader: one more file (lines 107, 238), or the one file of
\* Resume Optimization Tips (line 285).
UploadFile(f) ==
    \/ /\ HasMultiUpload
       /\ Len(uploaded_files) < MaxFiles
       /\ Rerun(option, Append(uploaded_files, f), selected, form, FALSE)
    \/ /\ option = "Resume Optimization Tips"
       /\ Rerun(option, <<f>>, selected, form, FALSE)

\* st.file_uploader: the user removes the i-th file.
RemoveFile(i) ==
    /\ HasMultiUpload \/ option = "Resume Optimization Tips"
    /\ i \in DOMAIN uploaded_files
    /\ Rerun(option,
             SubSeq(uploaded_files, 1, i - 1)
                 \o SubSeq(uploaded_files, i + 1, Len(uploaded_files)),
             selected, form, FALSE)

\* st.selectbox of line 112, for a selectbox that is on the page.
SelectTargetRole(n, r) ==
    /\ option = "Resume Analysis"
    /\ n \in page.keys
    /\ r # selected[n]
    /\ Rerun(option, uploaded_files, [selected EXCEPT ![n] = r], form, FALSE)

\* The inputs of lines 200-204.
EditForm(frm) ==
    /\ option = "Create Resume"
    /\ frm # form
    /\ \E field \in {"name", "email", "skills", "target_job", "summary"} :
           \A g \in DOMAIN form \ {field} : frm[g] = form[g]
    /\ Rerun(option, uploaded_files, selected, frm, FALSE)

\* st.button of line 206.
GenerateResumePDF ==
    /\ option = "Create Resume"
    /\ Rerun(option, uploaded_files, selected, form, TRUE)

Forms == [name : FieldValues, email : FieldValues, skills : SkillSelections,
          target_job : Range(RoleOptions), summary : FieldValues]

Init == UIStart /\ CallIdle

Next ==
    \/ \E opt \in Modules : SelectModule(opt)
    \/ \E f \in Uploads : UploadFile(f)
    \/ \E i \in 1..MaxFiles : RemoveFile(i)
    \/ \E n \in FileNames, r \in Range(RoleOptions) : SelectTargetRole(n, r)
    \/ \E frm \in Forms : EditForm(frm)
    \/ GenerateResumePDF

Spec == Init /\ [][Next]_vars

----------------------------------------------------------------------------
(* Call-level specification: lines 114-116 applied to one text and one      *)
(* role name, which need not be one the selectbox offers.                   *)

CallInit ==
    /\ UIStart
    /\ pc = "extract_skills"
    /\ text \in Texts
    /\ target_role \in RoleInputs
    /\ skills = <<>>
    /\ missing_skills = <<>>
    /\ job_fit = 0

CallExtractSkills ==
    /\ pc = "extract_skills"
    /\ skills' = extract_skills(text)
    /\ pc' = "suggest_skills"
    /\ UNCHANGED <<uiVars, text, target_role, missing_skills, job_fit>>

CallSuggestSkills ==
    /\ pc = "suggest_skills"
    /\ missing_skills' = suggest_skills(skills, target_role)
    /\ pc' = "job_fit"
    /\ UNCHANGED <<uiVars, text, target_role, skills, job_fit>>

ComputeJobFit ==
    /\ pc = "job_fit"
    /\ LET r == JobFit(skills, target_role)
       IN  /\ pc' = IF r.exc = "none" THEN "done" ELSE r.exc
           /\ job_fit' = r.value
    /\ UNCHANGED <<uiVars, text, target_role, skills, missing_skills>>

CallNext == CallExtractSkills \/ CallSuggestSkills \/ ComputeJobFit

SpecCalls == CallInit /\ [][CallNext]_vars

----------------------------------------------------------------------------
(* Properties                                                               *)

Catalog == DOMAIN Chars

Required(role) == Range(job_roles[role])

\* needle is a contiguous slice of hay.
OccursIn(needle, hay) ==
    \E i \in 1..(Len(hay) + 1) :
        /\ i + Len(needle) - 1 <= Len(hay)
        /\ SubSeq(hay, i, i + Len(needle) - 1) = needle

\* The catalog skills whose lowercased spelling occurs in the lowercased text.
SkillsInText(t) == {s \in Catalog : OccursIn(lower(Chars[s]), lower(t))}

Ascending(list) ==
    \A i, j \in DOMAIN list : i < j => StrLess(Chars[list[i]], Chars[list[j]])

PositionIn(x, list) == CHOOSE k \in DOMAIN list : list[k] = x

Extracted == pc \in {"suggest_skills", "job_fit", "done", "KeyError"}

Suggested == pc \in {"job_fit", "done", "KeyError"}

\* C1: every analysis record on the page carries a job fit between 0 and 100.
JobFitWithinPercent ==
    \A i \in DOMAIN page.details : page.details[i].Job_Fit \in 0..100

\* C2: the job fit of every analysis record is
\* floor(100 * |detected /\ required| / |required|) of its target role, and 0
\* for a role without required skills.
JobFitIsCoverage ==
    \A i \in DOMAIN page.details :
        LET r == page.details[i]
            required == Required(r.Target_Role)
            hit == Range(r.Detected_Skills) \cap required
        IN  r.Job_Fit = IF required = {} THEN 0
                        ELSE (100 * Cardinality(hit)) \div Cardinality(required)

\* C3: extract_skills returns exactly the catalog skills whose lowercased
\* spelling is a contiguous slice of the lowercased text, in ascending order
\* without repetition, and nothing for the empty text.
ExtractSkillsExact ==
    Extracted =>
        /\ Range(skills) = SkillsInText(text)
        /\ Range(skills) \subseteq Catalog
        /\ Ascending(skills)
        /\ text = <<>> => skills = <<>>

ExtractSkillsWitness ==
    /\ Extracted
    /\ text # lower(text)
    /\ Len(skills) >= 2
    /\ Range(skills) # Catalog

\* C4: for a role of the catalog, suggest_skills returns the required skills
\* that are not detected, each once, in the order of the role's list.
SuggestSkillsExact ==
    (Suggested /\ target_role \in DOMAIN job_roles) =>
        LET role_skills == job_roles[target_role]
        IN  /\ Range(missing_skills) = Range(role_skills) \ Range(skills)
            /\ Range(missing_skills) \cap Range(skills) = {}
            /\ \A i, j \in DOMAIN missing_skills :
                   i < j => PositionIn(missing_skills[i], role_skills)
                            < PositionIn(missing_skills[j], role_skills)

SuggestSkillsWitness ==
    /\ pc = "done"
    /\ target_role \in DOMAIN job_roles
    /\ Range(skills) \cap Required(target_role) # {}
    /\ Len(missing_skills) >= 2
    /\ ~Ascending(missing_skills)

Readable(files) == {i \in DOMAIN files : files[i].pdf # CorruptPdf}

DistinctNames(files) ==
    \A i, j \in DOMAIN files : files[i].name = files[j].name => i = j

FailureConfinedToFile ==
    (/\ Len(uploaded_files) >= 2
     /\ Readable(uploaded_files) # DOMAIN uploaded_files
     /\ DistinctNames(uploaded_files)) =>
        /\ option = "Resume Analysis" =>
               \A i \in Readable(uploaded_files) :
                   \E k \in DOMAIN page.details :
                       page.details[k].Resume_File = uploaded_files[i].name
        /\ option = "Resume Comparison" =>
               \A i \in Readable(uploaded_files) :
                   \E k \in DOMAIN page.df.rows :
                       page.df.rows[k].Resume = uploaded_files[i].name

\* C7: a press of Generate Resume PDF (the only run of Create Resume that
\* leaves anything on the page) yields the document and the success message
\* exactly when name, email, skills and summary are all non-empty, and the
\* warning without a document otherwise.
AllFilled(frm) ==
    frm.name # <<>> /\ frm.email # <<>> /\ frm.skills # <<>> /\ frm.summary # <<>>

GenerateIffAllFilled ==
    (option = "Create Resume" /\ page # BlankPage) =>
        IF AllFilled(form)
        THEN /\ page.pdf.made
             /\ page.info = "Resume PDF generated successfully!"
        ELSE /\ ~page.pdf.made
             /\ page.info = "Please fill all fields to generate the resume."

\* C8: in Resume Comparison, when the text of every upload was read, two or
\* more uploads give a table with one row per upload in upload order, one
\* column per skill found in any of them, and the present mark exactly where
\* the skill is found in that upload; with disjoint skill sets every column
\* has the present mark in exactly one row.  Fewer than two uploads give no
\* table.
ComparisonTableExact ==
    (option = "Resume Comparison" /\ page.exception = "none") =>
        LET files == uploaded_files
            found(i) == SkillsInText(PdfText[files[i].pdf])
            df == page.df
        IN  IF Len(files) >= 2
            THEN /\ df.built
                 /\ DOMAIN df.rows = DOMAIN files
                 /\ Range(df.columns) = UNION {found(i) : i \in DOMAIN files}
                 /\ Ascending(df.columns)
                 /\ \A i \in DOMAIN files :
                        /\ df.rows[i].Resume = files[i].name
                        /\ DOMAIN df.rows[i].cells = Range(df.columns)
                        /\ \A s \in Range(df.columns) :
                               df.rows[i].cells[s] =
                                   IF s \in found(i) THEN Check ELSE Cross
                 /\ (\A i, j \in DOMAIN files :
                         i # j => found(i) \cap found(j) = {}) =>
                        \A s \in Range(df.columns) :
                            Cardinality({i \in DOMAIN files :
                                            df.rows[i].cells[s] = Check}) = 1
            ELSE /\ ~df.built
                 /\ page.info = "Upload at least 2 resumes to compare."

ComparisonTableWitness ==
    /\ option = "Resume Comparison"
    /\ page.df.built
    /\ Len(uploaded_files) = 2
    /\ Len(page.df.columns) >= 4
    /\ \A s \in Range(page.df.columns) :
           page.df.rows[1].cells[s] # page.df.rows[2].cells[s]

\* C9: a catalog skill whose lowercased spelling occurs in the lowercased
\* spelling of a detected skill is detected too; Java comes with JavaScript.
SubstringSkillsComeTogether ==
    Extracted =>
        /\ InList("JavaScript", skills) => InList("Java", skills)
        /\ \A s, d \in Catalog :
               (InList(d, skills) /\ OccursIn(lower(Chars[s]), lower(Chars[d])))
                   => InList(s, skills)

\* The text is the single word javascript.
SubstringSkillsWitness ==
    /\ Extracted
    /\ text = <<106, 97, 118, 97, 115, 99, 114, 105, 112, 116>>
    /\ skills = <<"Java", "JavaScript">>

\* C10: when the analysis of a batch completes, the Skill Gap Tracker has one
\* column per skill of the union of the records' missing-skill lists and one
\* row per record; a cell holds the missing mark exactly when the skill is in
\* that record's own missing-skill list and the ok mark otherwise, so a skill
\* its target role does not require gets the ok mark whether detected or
\* not.  With no missing skill anywhere there is no table.
SkillGapTrackerExact ==
    (option = "Resume Analysis" /\ page.tracked) =>
        LET res == page.details
            union == UNION {Range(res[i].Missing_Skills) : i \in DOMAIN res}
            gap == page.df_gap
        IN  IF union = {}
            THEN /\ ~gap.built
                 /\ page.info = "No missing skills across uploaded resumes"
            ELSE /\ gap.built
                 /\ Range(gap.columns) = union
                 /\ Ascending(gap.columns)
                 /\ DOMAIN gap.rows = DOMAIN res
                 /\ \A i \in DOMAIN res :
                        /\ gap.rows[i].Resume = res[i].Resume_File
                        /\ DOMAIN gap.rows[i].cells = union
                        /\ \A s \in union :
                               /\ gap.rows[i].cells[s] =
                                      IF InList(s, res[i].Missing_Skills)
                                      THEN Cross ELSE Check
                               /\ s \notin Required(res[i].Target_Role)
                                      => gap.rows[i].cells[s] = Check

\* A batch of two whose tracker gives the ok mark to a skill that the
\* resume neither shows nor needs for its role, next to one it shows.
SkillGapTrackerWitness ==
    /\ option = "Resume Analysis"
    /\ page.df_gap.built
    /\ Len(page.details) = 2
    /\ \E i \in DOMAIN page.details, s \in Range(page.df_gap.columns) :
           /\ page.df_gap.rows[i].cells[s] = Check
           /\ ~InList(s, page.details[i].Detected_Skills)
           /\ s \notin Required(page.details[i].Target_Role)
    /\ \E i \in DOMAIN page.details, s \in Range(page.df_gap.columns) :
           page.df_gap.rows[i].cells[s] = Cross

====
